---- MODULE Spec2Model ----
(***************************************************************************)
(* Weather agent team with session state and two guardrail callbacks       *)
(* (weather_agentteam_multimodel_stateful/agentteam_statefulsession.py).   *)
(*                                                                         *)
(* A text is a sequence of one-character strings, so that upper(),         *)
(* lower(), replace() and capitalize() are computed character by           *)
(* character; the fixed pieces of an f-string are kept as single tokens.   *)
(* Python's None, where a text is expected, is the reserved text NoneText. *)
(***************************************************************************)
EXTENDS Integers, Sequences, FiniteSets, TLC

\* ------------------------------------------------------------------ bounds
MaxTurns == 2
MaxEvents == 4

\* ------------------------------------------------------------------- texts
LowerLetters == <<"a","b","c","d","e","f","g","h","i","j","k","l","m",
                  "n","o","p","q","r","s","t","u","v","w","x","y","z">>
UpperLetters == <<"A","B","C","D","E","F","G","H","I","J","K","L","M",
                  "N","O","P","Q","R","S","T","U","V","W","X","Y","Z">>

UpperChar(c) ==
    IF \E i \in 1..26 : LowerLetters[i] = c
    THEN UpperLetters[CHOOSE i \in 1..26 : LowerLetters[i] = c]
    ELSE c

LowerChar(c) ==
    IF \E i \in 1..26 : UpperLetters[i] = c
    THEN LowerLetters[CHOOSE i \in 1..26 : UpperLetters[i] = c]
    ELSE c

\* str.upper()
StrUpper(s) == [i \in 1..Len(s) |-> UpperChar(s[i])]

\* str.lower()
StrLower(s) == [i \in 1..Len(s) |-> LowerChar(s[i])]

\* str.capitalize(): first character upper case, the rest lower case
Capitalize(s) == [i \in 1..Len(s) |-> IF i = 1 THEN UpperChar(s[i]) ELSE LowerChar(s[i])]

IsSpace(c) == c = " "

NotSpace(c) == ~IsSpace(c)

\* str.replace(" ", "")
RemoveSpaces(s) == SelectSeq(s, NotSpace)

\* sub in s
Contains(s, sub) ==
    \E i \in 1..(Len(s) - Len(sub) + 1) : SubSeq(s, i, i + Len(sub) - 1) = sub

NoneText == <<"<None>">>

\* truthiness of an optional text: None and "" are falsy
Truthy(t) == t # NoneText /\ t # <<>>

DigitChars == <<"0","1","2","3","4","5","6","7","8","9">>

RECURSIVE Digits(_)
Digits(n) == IF n < 10 THEN <<DigitChars[n + 1]>> ELSE Digits(n \div 10) \o <<DigitChars[(n % 10) + 1]>>

\* ----------------------------------------------------- argument values
\* A tool argument is any JSON value the model produced: a string or not.
StrVal(s) == [type |-> "str", v |-> s]
IntVal(digits) == [type |-> "int", v |-> digits]
IsStr(x) == x.type = "str"

\* Python truthiness of an argument value: "" is falsy, a non-zero int is truthy
ArgTruthy(x) == IF IsStr(x) THEN x.v # <<>> ELSE x.v # <<"0">>

NoArgs == [k \in {} |-> StrVal(<<>>)]

\* ------------------------------------------------------- session state
KeyUnit == "user_preference_temperature_unit"
KeyLastCity == "last_city_checked_stateful"
KeyBlockFlag == "guardrail_block_keyword_triggered"
KeyToolFlag == "guardrail_tool_block_triggered"
KeyOutput == "last_weather_report"

Celsius == <<"C","e","l","s","i","u","s">>
Fahrenheit == <<"F","a","h","r","e","n","h","e","i","t">>

EmptyState == [k \in {} |-> TRUE]

\* state.get(key, default)
StateGet(s, key, default) == IF key \in DOMAIN s THEN s[key] ELSE default

StateSetReplacing(s, key, value) == [k \in {key} |-> value]

\* state[key] = value
StateSet(s, key, value) ==
    [k \in (DOMAIN s) \cup {key} |-> IF k = key THEN value ELSE s[k]]

\* ------------------------------------------------- request and events
\* types.Content(role, parts): parts holds each part's text (NoneText for a
\* part that carries no text, such as a function call or function response)
Content(role, parts) == [role |-> role, parts |-> parts]

\* An event of the runtime: is_final_response(), partial, content (hasContent
\* and its parts), actions.escalate and error_message
Event(final, hasContent, parts, escalate, error_message) ==
    [final |-> final, partial |-> FALSE, hasContent |-> hasContent, parts |-> parts,
     escalate |-> escalate, error_message |-> error_message]

\* a streamed chunk of text: never final
PartialEvent(text) ==
    [final |-> FALSE, partial |-> TRUE, hasContent |-> TRUE, parts |-> <<text>>,
     escalate |-> FALSE, error_message |-> NoneText]

\* ------------------------------------------- block_keyword_guardrail
keyword_to_block == <<"B","L","O","C","K">>

BlockMessage ==
    <<"I cannot process this request because it contains the blocked keyword '">>
        \o keyword_to_block \o <<"'.">>

\* the reversed scan: the newest content with role 'user', parts, and a
\* truthy text in its first part; "" when there is none
last_user_message_text(contents) ==
    LET found == {i \in 1..Len(contents) :
                     /\ contents[i].role = "user"
                     /\ Len(contents[i].parts) > 0
                     /\ Truthy(contents[i].parts[1])}
    IN  IF found = {} THEN <<>>
        ELSE contents[CHOOSE i \in found : \A j \in found : j <= i].parts[1]

KeywordFoundCaseSensitive(text) == Contains(text, keyword_to_block)

\* keyword_to_block in last_user_message_text.upper()
KeywordFound(text) == Contains(StrUpper(text), keyword_to_block)

block_keyword_guardrail_no_flag(contents, s) ==
    IF KeywordFound(last_user_message_text(contents))
    THEN [override |-> TRUE, text |-> BlockMessage, state |-> s]
    ELSE [override |-> FALSE, text |-> NoneText, state |-> s]

\* returns the LlmResponse text (override) or None (proceed), and the state
block_keyword_guardrail(contents, s) ==
    IF KeywordFound(last_user_message_text(contents))
    THEN [override |-> TRUE, text |-> BlockMessage,
          state |-> StateSet(s, KeyBlockFlag, TRUE)]
    ELSE [override |-> FALSE, text |-> NoneText, state |-> s]

\* ------------------------------------------ block_city_tool_guardrail
target_tool_name == "get_weather"
blocked_cities == {<<"p","a","r","i","s">>}

NoResult == [status |-> "none"]

PolicyMessage(city) ==
    <<"Policy restriction: Weather checks for '">> \o Capitalize(city)
        \o <<"' are currently disabled by a tool guardrail.">>

CityBlockedCaseSensitive(city) == city \in blocked_cities

\* city_argument.lower() in blocked_cities
CityBlocked(city) == StrLower(city) \in blocked_cities

block_city_tool_guardrail_flag_always(tool_name, args, s) ==
    LET city_argument == IF "city" \in DOMAIN args THEN args["city"] ELSE StrVal(<<>>)
    IN  IF tool_name = target_tool_name /\ ArgTruthy(city_argument)
        THEN IF ~IsStr(city_argument)
             THEN [raised |-> TRUE, ret |-> NoResult, state |-> s]
             ELSE IF CityBlocked(city_argument.v)
                  THEN [raised |-> FALSE,
                        ret |-> [status |-> "error",
                                 error_message |-> PolicyMessage(city_argument.v)],
                        state |-> StateSet(s, KeyToolFlag, TRUE)]
                  ELSE [raised |-> FALSE, ret |-> NoResult,
                        state |-> StateSet(s, KeyToolFlag, TRUE)]
        ELSE [raised |-> FALSE, ret |-> NoResult, state |-> s]

\* raised: city_argument.lower() on a truthy value that is not a string
\* ret: the error payload (override) or NoResult (None, proceed)
block_city_tool_guardrail(tool_name, args, s) ==
    LET city_argument == IF "city" \in DOMAIN args THEN args["city"] ELSE StrVal(<<>>)
    IN  IF tool_name = target_tool_name /\ ArgTruthy(city_argument)
        THEN IF ~IsStr(city_argument)
             THEN [raised |-> TRUE, ret |-> NoResult, state |-> s]
             ELSE IF CityBlocked(city_argument.v)
                  THEN [raised |-> FALSE,
                        ret |-> [status |-> "error",
                                 error_message |-> PolicyMessage(city_argument.v)],
                        state |-> StateSet(s, KeyToolFlag, TRUE)]
                  ELSE [raised |-> FALSE, ret |-> NoResult, state |-> s]
        ELSE [raised |-> FALSE, ret |-> NoResult, state |-> s]

\* -------------------------------------------------------- get_weather
mock_weather_db_with_paris ==
    [city \in {<<"n","e","w","y","o","r","k">>, <<"l","o","n","d","o","n">>,
               <<"t","o","k","y","o">>, <<"p","a","r","i","s">>} |->
        CASE city = <<"n","e","w","y","o","r","k">> -> [temp_c |-> 25, condition |-> "sunny"]
          [] city = <<"l","o","n","d","o","n">> -> [temp_c |-> 15, condition |-> "cloudy"]
          [] city = <<"t","o","k","y","o">> -> [temp_c |-> 18, condition |-> "light rain"]
          [] city = <<"p","a","r","i","s">> -> [temp_c |-> 20, condition |-> "sunny"]]

mock_weather_db ==
    [city \in {<<"n","e","w","y","o","r","k">>, <<"l","o","n","d","o","n">>,
               <<"t","o","k","y","o">>} |->
        CASE city = <<"n","e","w","y","o","r","k">> -> [temp_c |-> 25, condition |-> "sunny"]
          [] city = <<"l","o","n","d","o","n">> -> [temp_c |-> 15, condition |-> "cloudy"]
          [] city = <<"t","o","k","y","o">> -> [temp_c |-> 18, condition |-> "light rain"]]

\* city.lower().replace(" ", "")
city_normalized(city) == RemoveSpaces(StrLower(city))

FahrenheitShownNoOffset(temp_c) == (2 * (temp_c * 9) + 5) \div 10

\* (temp_c * 9/5) + 32 shown with {:.0f}: fifths rounded to the nearest integer
\* (a multiple of 1/5 is never a tie)
FahrenheitShown(temp_c) == (2 * (temp_c * 9 + 160) + 5) \div 10

WeatherReportAnyCaseUnit(city, preferred_unit) ==
    LET data == mock_weather_db[city_normalized(city)]
        temp_value == IF StrLower(preferred_unit) = StrLower(Fahrenheit)
                      THEN FahrenheitShown(data.temp_c) ELSE data.temp_c
        temp_unit == IF StrLower(preferred_unit) = StrLower(Fahrenheit) THEN "°F" ELSE "°C"
    IN  <<"The weather in ">> \o Capitalize(city) \o <<" is ", data.condition,
          " with a temperature of ">> \o Digits(temp_value) \o <<temp_unit, ".">>

WeatherReportUnitSwapped(city, preferred_unit) ==
    LET data == mock_weather_db[city_normalized(city)]
        temp_value == IF preferred_unit = Fahrenheit
                      THEN FahrenheitShown(data.temp_c) ELSE data.temp_c
        temp_unit == IF preferred_unit = Fahrenheit THEN "°C" ELSE "°F"
    IN  <<"The weather in ">> \o Capitalize(city) \o <<" is ", data.condition,
          " with a temperature of ">> \o Digits(temp_value) \o <<temp_unit, ".">>

PreferredUnitDefaultFahrenheit(s) == StateGet(s, KeyUnit, Fahrenheit)

\* tool_context.state.get("user_preference_temperature_unit", "Celsius")
PreferredUnit(s) == StateGet(s, KeyUnit, Celsius)

WeatherReport(city, preferred_unit) ==
    LET data == mock_weather_db[city_normalized(city)]
        temp_value == IF preferred_unit = Fahrenheit
                      THEN FahrenheitShown(data.temp_c) ELSE data.temp_c
        temp_unit == IF preferred_unit = Fahrenheit THEN "°F" ELSE "°C"
    IN  <<"The weather in ">> \o Capitalize(city) \o <<" is ", data.condition,
          " with a temperature of ">> \o Digits(temp_value) \o <<temp_unit, ".">>

get_weather_stores_normalized(args, s) ==
    IF "city" \notin DOMAIN args \/ ~IsStr(args["city"])
    THEN [raised |-> TRUE, ret |-> NoResult, state |-> s, preferred_unit |-> NoneText]
    ELSE IF city_normalized(args["city"].v) \in DOMAIN mock_weather_db
    THEN [raised |-> FALSE,
          ret |-> [status |-> "success",
                   report |-> WeatherReport(args["city"].v, PreferredUnit(s))],
          state |-> StateSet(s, KeyLastCity, city_normalized(args["city"].v)),
          preferred_unit |-> PreferredUnit(s)]
    ELSE [raised |-> FALSE,
          ret |-> [status |-> "error",
                   error_message |-> <<"Sorry, I don't have weather information for '">>
                                        \o args["city"].v \o <<"'.">>],
          state |-> s,
          preferred_unit |-> PreferredUnit(s)]

get_weather_unknown_raises(args, s) ==
    IF \/ "city" \notin DOMAIN args
       \/ ~IsStr(args["city"])
       \/ city_normalized(args["city"].v) \notin DOMAIN mock_weather_db
    THEN [raised |-> TRUE, ret |-> NoResult, state |-> s, preferred_unit |-> NoneText]
    ELSE [raised |-> FALSE,
          ret |-> [status |-> "success",
                   report |-> WeatherReport(args["city"].v, PreferredUnit(s))],
          state |-> StateSet(s, KeyLastCity, args["city"].v),
          preferred_unit |-> PreferredUnit(s)]

\* called with the argument map of the request: a missing city is a TypeError
\* of the call, a city that is not a string fails at city.lower()
get_weather(args, s) ==
    IF "city" \notin DOMAIN args \/ ~IsStr(args["city"])
    THEN [raised |-> TRUE, ret |-> NoResult, state |-> s, preferred_unit |-> NoneText]
    ELSE LET city == args["city"].v
             preferred_unit == PreferredUnit(s)
         IN  IF city_normalized(city) \in DOMAIN mock_weather_db
             THEN [raised |-> FALSE,
                   ret |-> [status |-> "success",
                            report |-> WeatherReport(city, preferred_unit)],
                   state |-> StateSet(s, KeyLastCity, city),
                   preferred_unit |-> preferred_unit]
             ELSE [raised |-> FALSE,
                   ret |-> [status |-> "error",
                            error_message |-> <<"Sorry, I don't have weather information for '">>
                                                 \o city \o <<"'.">>],
                   state |-> s,
                   preferred_unit |-> preferred_unit]

\* ------------------------------------------- say_hello, say_goodbye
say_hello(name) ==
    IF Truthy(name) THEN <<"Hello, ">> \o name \o <<"!">> ELSE <<"Hello there!">>

say_goodbye == <<"Goodbye! Have a great day.">>

\* --------------------------------------------------- call_agent_async
FallbackText == <<"Agent did not produce a final response.">>

EscalationTextNoDefault(error_message) == <<"Agent escalated: ">> \o error_message

EscalationText(error_message) ==
    <<"Agent escalated: ">> \o
        (IF Truthy(error_message) THEN error_message ELSE <<"No specific message.">>)

\* the body of the async-for loop for one event: the new final_response_text
\* and whether the loop breaks
LoopBodyNoBreak(event, text) ==
    IF event.final
    THEN [text |-> IF event.hasContent /\ Len(event.parts) > 0 THEN event.parts[1]
                   ELSE IF event.escalate THEN EscalationText(event.error_message)
                   ELSE text,
          break |-> FALSE]
    ELSE [text |-> text, break |-> FALSE]

LoopBodyAnyContent(event, text) ==
    IF event.hasContent /\ Len(event.parts) > 0
    THEN [text |-> event.parts[1], break |-> event.final]
    ELSE [text |-> IF event.final /\ event.escalate
                   THEN EscalationText(event.error_message) ELSE text,
          break |-> event.final]

LoopBody(event, text) ==
    IF event.final
    THEN [text |-> IF event.hasContent /\ Len(event.parts) > 0 THEN event.parts[1]
                   ELSE IF event.escalate THEN EscalationText(event.error_message)
                   ELSE text,
          break |-> TRUE]
    ELSE [text |-> text, break |-> FALSE]

\* ---------------------------------------------------------- the agents
RootAgent == "weather_agent"
GreetingAgent == "greeting_agent"
FarewellAgent == "farewell_agent"

\* before_model_callback / before_tool_callback / output_key are arguments of
\* the root Agent only; the sub-agents are created without them
HasNoCallback(a) == FALSE

\* before_model_callback=block_keyword_guardrail
HasModelCallback(a) == a = RootAgent

\* before_tool_callback=block_city_tool_guardrail
HasToolCallback(a) == a = RootAgent

\* output_key=output_key
HasOutputKey(a) == a = RootAgent

\* -------------------------------------------------------------- inputs
Queries ==
    { <<"B","L","O","C","K"," ","P","a","r","i","s">>,
      <<"u","n","B","l","o","c","k","a","b","l","e">>,
      <<"P","a","r","i","s","?">>,
      <<>> }

CityArgs ==
    { StrVal(<<"P","a","r","i","s">>), StrVal(<<"P","A","R","I","S">>),
      StrVal(<<"p","A","r","I","s">>),
      StrVal(<<" ","P","a","r","i","s">>),
      StrVal(<<"P","a","r"," ","i","s">>),
      StrVal(<<"L","o","n","d","o","n">>),
      StrVal(<<"N","e","w"," ","Y","o","r","k">>),
      StrVal(<<"T","o","k","y","o">>),
      StrVal(<<"B","e","r","l","i","n">>),
      StrVal(<<>>),
      IntVal(<<"1","2","3">>) }

\* what the model may ask the runtime to call, per agent
ToolRequests(a) ==
    IF a = RootAgent
    THEN {[name |-> "get_weather", args |-> NoArgs]}
         \cup {[name |-> "get_weather", args |-> [city |-> c]] : c \in CityArgs}
         \cup {[name |-> "transfer_to_agent", args |-> [agent_name |-> StrVal(<<t>>)]]
                  : t \in {GreetingAgent, FarewellAgent}}
    ELSE IF a = GreetingAgent
    THEN {[name |-> "say_hello", args |-> NoArgs],
          [name |-> "say_hello", args |-> [name |-> StrVal(<<"B","o","b">>)]]}
    ELSE {[name |-> "say_goodbye", args |-> NoArgs]}

ReplyText == <<"Sure.">>
ErrorText == <<"quota exceeded">>

\* the events a model call may produce directly
ModelEvents ==
    { Event(TRUE, TRUE, <<ReplyText>>, FALSE, NoneText),
      PartialEvent(ReplyText),
      Event(TRUE, TRUE, <<ReplyText>>, TRUE, ErrorText),
      Event(TRUE, TRUE, <<>>, TRUE, ErrorText),
      Event(TRUE, FALSE, <<>>, TRUE, ErrorText),
      Event(TRUE, FALSE, <<>>, TRUE, NoneText),
      Event(TRUE, FALSE, <<>>, TRUE, <<>>),
      Event(TRUE, FALSE, <<>>, FALSE, ErrorText) }

FunctionCallEvent == Event(FALSE, TRUE, <<NoneText>>, FALSE, NoneText)
FunctionResponseEvent == Event(FALSE, TRUE, <<NoneText>>, FALSE, NoneText)

NoInvocation ==
    [agent |-> "none", name |-> "none", args |-> NoArgs, hook |-> "none",
     ran |-> FALSE, ret |-> NoResult, preferred_unit |-> NoneText]

\* ------------------------------------------------------------ the state
VARIABLES
    state,                \* the session's state map
    written,              \* per key, the value of the last write
    history,              \* the session's contents, oldest first
    pc,                   \* "Idle", "Running" or "Aborted"
    query,                \* the query of the turn
    turn,                 \* turns started so far
    agent,                \* the agent the runtime is running
    rt,                   \* the runtime's next step in the turn
    inv,                  \* the tool invocation in progress or last finished
    events,               \* the events yielded in this turn
    final_response_text,  \* call_agent_async's local
    loop,                 \* "iterating", "broke" or "exhausted"
    blocked,              \* the pre-model hook has overridden in this turn
    modelInvoked,         \* a real model was called in this turn
    state0,               \* the session state when the turn started
    answered,             \* turns whose response has been printed
    sessions,             \* the (app, user, session) keys the session service holds
    target,               \* the key the turns of the script are run on
    config                \* the inputs and the outcome of get_model_constants

vars == <<state, written, history, pc, query, turn, agent, rt, inv, events,
          final_response_text, loop, blocked, modelInvoked, state0, answered,
          sessions, target, config>>

initial_state == [k \in {KeyUnit} |-> Celsius]

\* the identifiers of the conversation: f"{root}_{model_short_name}"
model_short_name == "gemini"

\* ------------------------------------------------- get_model_constants
\* An identifier is a string; None (an argument left out, a variable the
\* environment does not hold) is NoneId.
NoneId == "<None>"

\* `not x` for an optional identifier
Falsy(x) == x = NoneId \/ x = ""

\* LiteLlm(model=agent_model)
LiteLlm(agent_model) == [wrapper |-> "LiteLlm", model |-> agent_model]

Returned(agent_model, model) ==
    [outcome |-> "returned", agent_model |-> agent_model, model |-> model]

ValueError(variable) ==
    [outcome |-> "ValueError", message |-> <<variable, " is not defined in .env">>]

\* `return agent_model, model` when no branch has bound the two names
UnboundLocalError == [outcome |-> "UnboundLocalError"]

\* one branch: the passed identifier if truthy, else os.getenv(variable)
Resolve(passed_id, env, variable) == IF Falsy(passed_id) THEN env[variable] ELSE passed_id

\* passed: model_gpt, model_claude, model_gemini; env: the environment
get_model_constants(short_name, passed, env) ==
    IF short_name = "gpt"
    THEN LET model_gpt == Resolve(passed.model_gpt, env, "MODEL_GPT")
         IN  IF Falsy(model_gpt) THEN ValueError("MODEL_GPT")
             ELSE Returned(model_gpt, LiteLlm(model_gpt))
    ELSE IF short_name = "claude"
    THEN LET model_claude == Resolve(passed.model_claude, env, "MODEL_CLAUDE")
         IN  IF Falsy(model_claude) THEN ValueError("MODEL_CLAUDE")
             ELSE Returned(model_claude, LiteLlm(model_claude))
    ELSE IF short_name = "gemini"
    THEN LET model_gemini == Resolve(passed.model_gemini, env, "MODEL_GEMINI")
         IN  IF Falsy(model_gemini) THEN ValueError("MODEL_GEMINI")
             ELSE Returned(model_gemini, [wrapper |-> "none", model |-> model_gemini])
    ELSE UnboundLocalError

Pending == [outcome |-> "pending"]

\* a call of get_model_constants and what came of it
Configured(short_name, passed, env) ==
    [short_name |-> short_name, passed |-> passed, env |-> env,
     result |-> get_model_constants(short_name, passed, env)]

NothingPassed == [model_gpt |-> NoneId, model_claude |-> NoneId, model_gemini |-> NoneId]

\* the environment of a run of the script that got as far as its session
ScriptEnv == [MODEL_GPT |-> NoneId, MODEL_CLAUDE |-> NoneId, MODEL_GEMINI |-> "env/gemini"]

ShortNames == {"gpt", "claude", "gemini", "mistral"}
PassedIds == {NoneId, "", "passed/id"}
EnvIds == {NoneId, "", "env/id"}
app_name == <<"weather_app", "_", model_short_name>>
user_id == <<"user_1", "_", model_short_name>>
session_id == <<"session_001", "_", model_short_name>>

NoKey == <<>>

\* the key create_session stores the session under
CreatedKey == <<app_name, user_id, session_id>>

TurnKeyRoots == <<<<"weather_app">>, <<"user_1">>, <<"session_001">>>>

\* the key of a turn: the runner's app_name with the user_id and session_id
\* that interaction_func passes to call_agent_async
TurnKey == <<app_name, user_id, session_id>>

NotFound == [found |-> FALSE]

\* session_service.get_session(app_name, user_id, session_id)
get_session(store, key, s) ==
    IF key \in store THEN [found |-> TRUE, state |-> s] ELSE NotFound

\* create_session(state=initial_state); no turn is running
InitWith(s) ==
    /\ state = s
    /\ written = s
    /\ history = <<>>
    /\ pc = "Idle"
    /\ query = <<>>
    /\ turn = 0
    /\ agent = RootAgent
    /\ rt = "None"
    /\ inv = NoInvocation
    /\ events = <<>>
    /\ final_response_text = FallbackText
    /\ loop = "iterating"
    /\ blocked = FALSE
    /\ modelInvoked = FALSE
    /\ state0 = s
    /\ answered = 0
    /\ sessions = {CreatedKey}
    /\ target = NoKey
    /\ config = Configured(model_short_name, NothingPassed, ScriptEnv)

Init == InitWith(initial_state)

\* create_session with or without a state argument
InitialStates == {EmptyState, initial_state}

InitAnyState == \E s \in InitialStates : InitWith(s)

\* values that user_preference_temperature_unit may have been created with
Units == {Celsius, Fahrenheit, <<"f","a","h","r","e","n","h","e","i","t">>,
          <<"K","e","l","v","i","n">>}

UnitStates == {EmptyState} \cup {[k \in {KeyUnit} |-> u] : u \in Units}

InitAnyUnit == \E s \in UnitStates : InitWith(s)

\* the record of a write state[key] = value
Note(w, key, value) == [k \in (DOMAIN w) \cup {key} |-> IF k = key THEN value ELSE w[k]]

OutputTextEmpty(event) == <<>>

\* output_key: the final response text of the turn is saved under the key
OutputText(event) == IF Truthy(event.parts[1]) THEN event.parts[1] ELSE <<>>

SavesOutput(a, event) ==
    HasOutputKey(a) /\ event.final /\ event.hasContent /\ Len(event.parts) > 0

\* the session keeps the content of an event that is not partial and has parts
Recorded(event) == event.hasContent /\ Len(event.parts) > 0 /\ ~event.partial

\* the runtime yields `event` after leaving the session state `s` (with the
\* writes `w` recorded): the output key is saved, the content joins the
\* history and call_agent_async runs its loop body on the event.  Every
\* event of a turn is yielded through the run of the runner's agent, the
\* events of a sub-agent it transferred to included, so that a farewell
\* turn overwrites the key as well.
Yield(event, s, w) ==
    LET r == LoopBody(event, final_response_text)
    IN  /\ state' = IF SavesOutput(RootAgent, event)
                    THEN StateSet(s, KeyOutput, OutputText(event)) ELSE s
        /\ written' = IF SavesOutput(RootAgent, event)
                      THEN Note(w, KeyOutput, OutputText(event)) ELSE w
        /\ events' = Append(events, event)
        /\ final_response_text' = r.text
        /\ loop' = IF r.break THEN "broke" ELSE "iterating"

Resumable == pc = "Running" /\ loop = "iterating" /\ Len(events) < MaxEvents

NextModelStep(a) == IF HasModelCallback(a) THEN "BeforeModel" ELSE "ModelCall"

NotAwaited == pc # "Aborted"

\* `await interaction_func(...)`: the script reaches its next statement only
\* when the call before it has returned
Awaited == pc = "Idle"

\* call_agent_async up to the first resumption of runner.run_async
StartTurn(query_) ==
    /\ Awaited
    /\ turn < MaxTurns
    /\ pc' = "Running"
    /\ query' = query_
    /\ turn' = turn + 1
    /\ history' = Append(history, Content("user", <<query_>>))
    /\ final_response_text' = FallbackText
    /\ loop' = "iterating"
    /\ events' = <<>>
    /\ agent' = RootAgent
    /\ rt' = NextModelStep(RootAgent)
    /\ inv' = NoInvocation
    /\ blocked' = FALSE
    /\ modelInvoked' = FALSE
    /\ state0' = state
    /\ target' = TurnKey
    /\ UNCHANGED <<state, written, answered, sessions, config>>

\* before_model_callback=block_keyword_guardrail on the outgoing request
BeforeModel ==
    /\ Resumable
    /\ rt = "BeforeModel"
    /\ LET g == block_keyword_guardrail(history, state)
           e == Event(TRUE, TRUE, <<g.text>>, FALSE, NoneText)
       IN  IF g.override
           THEN /\ Yield(e, g.state, Note(written, KeyBlockFlag, TRUE))
                /\ history' = Append(history, Content("model", e.parts))
                /\ blocked' = TRUE
                /\ rt' = NextModelStep(agent)
           ELSE /\ rt' = "ModelCall"
                /\ state' = g.state
                /\ UNCHANGED <<written, history, events,
                               final_response_text, loop, blocked>>
    /\ UNCHANGED <<pc, query, turn, agent, inv, modelInvoked, state0, answered,
          sessions, target, config>>

\* the model answers with an event of its own
ModelResponds(e) ==
    /\ Resumable
    /\ rt = "ModelCall"
    /\ modelInvoked' = TRUE
    /\ Yield(e, state, written)
    /\ history' = IF Recorded(e) THEN Append(history, Content("model", e.parts))
                  ELSE history
    /\ rt' = IF e.final THEN NextModelStep(agent) ELSE "ModelCall"
    /\ UNCHANGED <<pc, query, turn, agent, inv, blocked, state0, answered,
          sessions, target, config>>

\* the model asks for a tool invocation (two events: the call, the response)
ModelRequestsTool(req) ==
    /\ Resumable
    /\ Len(events) + 2 <= MaxEvents
    /\ rt = "ModelCall"
    /\ modelInvoked' = TRUE
    /\ Yield(FunctionCallEvent, state, written)
    /\ history' = Append(history, Content("model", FunctionCallEvent.parts))
    /\ inv' = [NoInvocation EXCEPT !.agent = agent, !.name = req.name, !.args = req.args]
    /\ rt' = IF HasToolCallback(agent) THEN "BeforeTool" ELSE "ToolExec"
    /\ UNCHANGED <<pc, query, turn, agent, blocked, state0, answered,
          sessions, target, config>>

\* the function-response event that ends a tool invocation
YieldToolResponse(s, w) ==
    /\ Yield(FunctionResponseEvent, s, w)
    /\ history' = Append(history, Content("user", FunctionResponseEvent.parts))

\* before_tool_callback=block_city_tool_guardrail on the requested invocation
BeforeTool ==
    /\ pc = "Running" /\ loop = "iterating"
    /\ rt = "BeforeTool"
    /\ LET h == block_city_tool_guardrail(inv.name, inv.args, state)
       IN  IF h.raised
           THEN /\ pc' = "Aborted"
                /\ inv' = [inv EXCEPT !.hook = "raised"]
                /\ UNCHANGED <<state, written, history, events, final_response_text,
                               loop, rt>>
           ELSE IF h.ret # NoResult
           THEN /\ inv' = [inv EXCEPT !.hook = "override", !.ret = h.ret]
                /\ YieldToolResponse(h.state, Note(written, KeyToolFlag, TRUE))
                /\ rt' = NextModelStep(agent)
                /\ pc' = pc
           ELSE /\ inv' = [inv EXCEPT !.hook = "proceed"]
                /\ rt' = "ToolExec"
                /\ state' = h.state
                /\ UNCHANGED <<pc, written, history, events,
                               final_response_text, loop>>
    /\ UNCHANGED <<query, turn, agent, blocked, modelInvoked, state0, answered,
          sessions, target, config>>

\* the body of the requested tool
ToolExec ==
    /\ pc = "Running" /\ loop = "iterating"
    /\ rt = "ToolExec"
    /\ \/ /\ inv.name = "get_weather"
          /\ LET t == get_weather(inv.args, state)
             IN  IF t.raised
                 THEN /\ pc' = "Aborted"
                      /\ inv' = inv
                      /\ UNCHANGED <<state, written, history, events,
                                     final_response_text, loop, rt>>
                 ELSE /\ inv' = [inv EXCEPT !.ran = TRUE, !.ret = t.ret,
                                            !.preferred_unit = t.preferred_unit]
                      /\ YieldToolResponse(t.state,
                            IF t.ret.status = "success"
                            THEN Note(written, KeyLastCity, inv.args["city"].v)
                            ELSE written)
                      /\ rt' = NextModelStep(agent)
                      /\ pc' = pc
          /\ agent' = agent
       \/ /\ inv.name = "transfer_to_agent"
          /\ inv' = [inv EXCEPT !.ran = TRUE]
          /\ YieldToolResponse(state, written)
          /\ agent' = inv.args["agent_name"].v[1]
          /\ rt' = NextModelStep(inv.args["agent_name"].v[1])
          /\ pc' = pc
       \/ /\ inv.name = "say_hello"
          /\ inv' = [inv EXCEPT !.ran = TRUE,
                        !.ret = [status |-> "text",
                                 text |-> say_hello(IF "name" \in DOMAIN inv.args
                                                    THEN inv.args["name"].v ELSE NoneText)]]
          /\ YieldToolResponse(state, written)
          /\ rt' = NextModelStep(agent)
          /\ UNCHANGED <<pc, agent>>
       \/ /\ inv.name = "say_goodbye"
          /\ inv' = [inv EXCEPT !.ran = TRUE,
                        !.ret = [status |-> "text", text |-> say_goodbye]]
          /\ YieldToolResponse(state, written)
          /\ rt' = NextModelStep(agent)
          /\ UNCHANGED <<pc, agent>>
    /\ UNCHANGED <<query, turn, blocked, modelInvoked, state0, answered,
          sessions, target, config>>

\* runner.run_async ends without having yielded a final event
RuntimeEnds ==
    /\ pc = "Running" /\ loop = "iterating"
    /\ rt = "ModelCall"
    /\ loop' = "exhausted"
    /\ UNCHANGED <<state, written, history, pc, query, turn, agent, rt, inv, events,
                   final_response_text, blocked, modelInvoked, state0, answered,
          sessions, target, config>>

\* the loop is over: the response is printed and the script goes on
EndTurn ==
    /\ pc = "Running" /\ loop # "iterating"
    /\ pc' = "Idle"
    /\ query' = <<>>
    /\ agent' = RootAgent
    /\ rt' = "None"
    /\ inv' = NoInvocation
    /\ events' = <<>>
    /\ final_response_text' = FallbackText
    /\ loop' = "iterating"
    /\ blocked' = FALSE
    /\ modelInvoked' = FALSE
    /\ state0' = state
    /\ answered' = answered + 1
    /\ UNCHANGED <<state, written, history, turn, sessions, target, config>>

\* stored_session.state["user_preference_temperature_unit"] = "Fahrenheit"
ManualUpdate ==
    /\ pc = "Idle"
    /\ turn >= 1
    /\ state' = StateSet(state, KeyUnit, Fahrenheit)
    /\ written' = Note(written, KeyUnit, Fahrenheit)
    /\ state0' = state'
    /\ UNCHANGED <<history, pc, query, turn, agent, rt, inv, events,
                   final_response_text, loop, blocked, modelInvoked, answered,
                   sessions, target, config>>

Next ==
    \/ \E q \in Queries : StartTurn(q)
    \/ BeforeModel
    \/ \E e \in ModelEvents : ModelResponds(e)
    \/ \E req \in ToolRequests(agent) : ModelRequestsTool(req)
    \/ BeforeTool
    \/ ToolExec
    \/ RuntimeEnds
    \/ EndTurn
    \/ ManualUpdate

Spec == Init /\ [][Next]_vars

\* ---------------------------------------------------------- the setup
\* before get_model_constants has been called: no session exists yet
InitSetup ==
    /\ state = EmptyState
    /\ written = EmptyState
    /\ history = <<>>
    /\ pc = "Setup"
    /\ query = <<>>
    /\ turn = 0
    /\ agent = RootAgent
    /\ rt = "None"
    /\ inv = NoInvocation
    /\ events = <<>>
    /\ final_response_text = FallbackText
    /\ loop = "iterating"
    /\ blocked = FALSE
    /\ modelInvoked = FALSE
    /\ state0 = EmptyState
    /\ answered = 0
    /\ sessions = {}
    /\ target = NoKey
    /\ \E n \in ShortNames :
       \E g \in PassedIds : \E c \in PassedIds : \E m \in PassedIds :
       \E eg \in EnvIds : \E ec \in EnvIds : \E em \in EnvIds :
          config = [short_name |-> n,
                    passed |-> [model_gpt |-> g, model_claude |-> c, model_gemini |-> m],
                    env |-> [MODEL_GPT |-> eg, MODEL_CLAUDE |-> ec, MODEL_GEMINI |-> em],
                    result |-> Pending]

\* get_model_constants returns and the script goes on to create its session
SetupReturns ==
    /\ pc = "Setup"
    /\ config.result = Pending
    /\ LET r == get_model_constants(config.short_name, config.passed, config.env)
       IN  /\ r.outcome = "returned"
           /\ config' = [config EXCEPT !.result = r]
    /\ pc' = "Idle"
    /\ state' = initial_state
    /\ written' = initial_state
    /\ state0' = initial_state
    /\ sessions' = {CreatedKey}
    /\ UNCHANGED <<history, query, turn, agent, rt, inv, events, final_response_text,
                   loop, blocked, modelInvoked, answered, target>>

\* get_model_constants raises: the script ends before any session exists
SetupRaises ==
    /\ pc = "Setup"
    /\ config.result = Pending
    /\ LET r == get_model_constants(config.short_name, config.passed, config.env)
       IN  /\ r.outcome # "returned"
           /\ config' = [config EXCEPT !.result = r]
    /\ pc' = "Failed"
    /\ UNCHANGED <<state, written, history, query, turn, agent, rt, inv, events,
                   final_response_text, loop, blocked, modelInvoked, state0, answered,
                   sessions, target>>

NextSetup == SetupReturns \/ SetupRaises

\* get_model_constants on every short name, passed identifier and environment
SpecSetup == InitSetup /\ [][NextSetup]_vars

\* the same program on a session created with any of InitialStates
SpecAnyState == InitAnyState /\ [][Next]_vars

\* the same program on a session whose stored unit is any of Units, or unset
SpecAnyUnit == InitAnyUnit /\ [][Next]_vars

\* ------------------------------------------------------------- claims
Flag(s, key) == key \in DOMAIN s /\ s[key] = TRUE

\* the text holds the letters b-l-o-c-k, in any case, at some position
HasBlockAnyCase(text) ==
    \E i \in 1..(Len(text) - 4) :
        /\ text[i] \in {"b", "B"}
        /\ text[i + 1] \in {"l", "L"}
        /\ text[i + 2] \in {"o", "O"}
        /\ text[i + 3] \in {"c", "C"}
        /\ text[i + 4] \in {"k", "K"}

\* the text is p-a-r-i-s in any letter case
IsParisAnyCase(text) ==
    /\ Len(text) = 5
    /\ text[1] \in {"p", "P"}
    /\ text[2] \in {"a", "A"}
    /\ text[3] \in {"r", "R"}
    /\ text[4] \in {"i", "I"}
    /\ text[5] \in {"s", "S"}

BlockEvent ==
    [final |-> TRUE, partial |-> FALSE, hasContent |-> TRUE,
     parts |-> << <<"I cannot process this request because it contains the blocked keyword '",
                    "B", "L", "O", "C", "K", "'.">> >>,
     escalate |-> FALSE, error_message |-> NoneText]

\* C1: in a turn whose query contains "BLOCK" in any letter case at any
\* position, no real model is invoked, and once the pre-model hook has been
\* evaluated it has overridden (the synthetic response is the turn's first
\* event) and guardrail_block_keyword_triggered is True.
C1_KeywordQueryBlocked ==
    (pc = "Running" /\ HasBlockAnyCase(query)) =>
        /\ ~modelInvoked
        /\ \/ rt = "BeforeModel" /\ events = <<>>
           \/ /\ blocked
              /\ events # <<>> /\ events[1] = BlockEvent
              /\ Flag(state, KeyBlockFlag)

C1_Witness ==
    /\ pc = "Running"
    /\ query = <<"u","n","B","l","o","c","k","a","b","l","e">>
    /\ blocked
    /\ Flag(state, KeyBlockFlag)
    /\ loop = "broke"

HookEvaluated == inv.hook \in {"proceed", "override", "raised"}

ParisRequested ==
    /\ inv.name = "get_weather"
    /\ "city" \in DOMAIN inv.args
    /\ IsStr(inv.args["city"])
    /\ IsParisAnyCase(inv.args["city"].v)

PolicyPayload ==
    [status |-> "error",
     error_message |-> <<"Policy restriction: Weather checks for '", "P", "a", "r", "i", "s",
                         "' are currently disabled by a tool guardrail.">>]

\* C2: a get_weather invocation whose city is "paris" in any letter case is
\* answered by the pre-tool hook with the policy-restriction error payload,
\* guardrail_tool_block_triggered is True and the body of get_weather has not
\* run, whatever the temperature unit in the session state.
C2_BlockedCityOverridden ==
    (ParisRequested /\ HookEvaluated) =>
        /\ inv.hook = "override"
        /\ inv.ret = PolicyPayload
        /\ Flag(state, KeyToolFlag)
        /\ ~inv.ran

C2_Witness ==
    /\ ParisRequested
    /\ inv.args["city"].v = <<"p","A","r","I","s">>
    /\ inv.hook = "override"
    /\ KeyUnit \in DOMAIN state /\ state[KeyUnit] = Fahrenheit

\* C3: neither guardrail hook ever raises: no evaluation of a hook ends in an
\* exception that ends the turn.
C3_HooksNeverRaise == inv.hook # "raised" /\ ~(pc = "Aborted" /\ rt = "BeforeTool")

FinalIndexes == {i \in 1..Len(events) : events[i].final}

\* the response a final event alone stands for, starting from the default
ResponseOfFinal(e) ==
    IF e.hasContent /\ e.parts # <<>> THEN e.parts[1]
    ELSE IF e.escalate
    THEN <<"Agent escalated: ">> \o
            (IF e.error_message \in {NoneText, <<>>} THEN <<"No specific message.">>
             ELSE e.error_message)
    ELSE <<"Agent did not produce a final response.">>

\* C4: the response is decided by the first final event alone: events before
\* it leave the default in place, and the loop stops at it, so that it is the
\* last event consumed.
C4_FirstFinalDecides ==
    /\ FinalIndexes = {} =>
          /\ loop # "broke"
          /\ final_response_text = <<"Agent did not produce a final response.">>
    /\ FinalIndexes # {} =>
          /\ loop = "broke"
          /\ FinalIndexes = {Len(events)}
          /\ final_response_text = ResponseOfFinal(events[Len(events)])

C4_Witness ==
    /\ loop = "broke"
    /\ Len(events) >= 2
    /\ events[1].hasContent /\ ~events[1].final /\ events[1].parts = <<ReplyText>>
    /\ final_response_text = <<"Agent escalated: ">> \o ErrorText

\* C5: when the event sequence of a turn ends without a final event, the
\* response is the fixed fallback sentence.
C5_NoFinalFallback ==
    (loop = "exhausted" /\ FinalIndexes = {}) =>
        final_response_text = <<"Agent did not produce a final response.">>

C5_Witness ==
    /\ loop = "exhausted"
    /\ Len(events) >= 1
    /\ events[1].hasContent
    /\ FinalIndexes = {}

\* C6: a first final event with the escalation signal and no content gives
\* "Agent escalated: <error text>", with "No specific message." when the event
\* has no error text; a first final event with content gives the text of the
\* content's first part.
C6_EscalationOrContent ==
    (loop = "broke" /\ events # <<>>) =>
        LET e == events[Len(events)]
        IN  /\ (e.hasContent /\ e.parts # <<>>) => final_response_text = e.parts[1]
            /\ (~e.hasContent /\ e.escalate /\ e.error_message \notin {NoneText, <<>>}) =>
                  final_response_text = <<"Agent escalated: ">> \o e.error_message
            /\ (~e.hasContent /\ e.escalate /\ e.error_message \in {NoneText, <<>>}) =>
                  final_response_text = <<"Agent escalated: ", "No specific message.">>

C6_Witness ==
    /\ loop = "broke"
    /\ events # <<>>
    /\ ~events[Len(events)].hasContent
    /\ events[Len(events)].escalate
    /\ events[Len(events)].error_message = NoneText
    /\ final_response_text = <<"Agent escalated: ", "No specific message.">>

\* C7: every key holds the value of its last write (by a guardrail, a tool,
\* the output key or the manual update), in the same turn and in every later
\* turn, and get_weather reads the unit that was last written.
C7_ReadsReturnLastWrite ==
    /\ \A k \in DOMAIN written : k \in DOMAIN state /\ state[k] = written[k]
    /\ (inv.ran /\ inv.name = "get_weather") =>
          inv.preferred_unit =
              (IF KeyUnit \in DOMAIN written THEN written[KeyUnit] ELSE Celsius)

C7_Witness ==
    /\ turn = 2
    /\ inv.ran /\ inv.name = "get_weather"
    /\ inv.preferred_unit = Fahrenheit
    /\ Flag(state, KeyBlockFlag)
    /\ KeyLastCity \in DOMAIN state

\* a step in which the body of get_weather runs to its return
GetWeatherStep == rt = "ToolExec" /\ inv.name = "get_weather" /\ ~inv.ran /\ inv'.ran

\* C8: when get_weather runs in a session that has no
\* user_preference_temperature_unit, the read with a default gives exactly
\* "Celsius" and changes nothing: the key is not created and, but for the
\* tool's own write of last_city_checked_stateful, the state map is the same.
C8_DefaultReadLeavesState ==
    [][(GetWeatherStep /\ KeyUnit \notin DOMAIN state) =>
          /\ inv'.preferred_unit = Celsius
          /\ (DOMAIN state') \ {KeyLastCity} = (DOMAIN state) \ {KeyLastCity}
          /\ \A k \in (DOMAIN state) \ {KeyLastCity} : state'[k] = state[k]]_vars

C8_Witness ==
    /\ inv.ran /\ inv.name = "get_weather"
    /\ inv.ret.status = "success"
    /\ KeyUnit \notin DOMAIN state
    /\ inv.preferred_unit = Celsius

\* C9: when the pre-model hook overrides, the synthetic block message is the
\* turn's only event and its response; no model is called, no tool invocation
\* is requested, hooked or run, and of the two guardrail flags only
\* guardrail_block_keyword_triggered is set by the turn.
C9_ModelOverrideEndsTurn ==
    blocked =>
        /\ loop = "broke"
        /\ events = <<BlockEvent>>
        /\ final_response_text = BlockEvent.parts[1]
        /\ ~modelInvoked
        /\ inv = NoInvocation
        /\ Flag(state, KeyBlockFlag)
        /\ Flag(state, KeyToolFlag) <=> Flag(state0, KeyToolFlag)

C9_Witness ==
    /\ blocked
    /\ query = <<"B","L","O","C","K"," ","P","a","r","i","s">>
    /\ loop = "broke"
    /\ ~Flag(state, KeyToolFlag)

\* C10 as claimed: every tool body that ran was preceded by a pre-tool hook
\* that returned proceed for that invocation.
C10_EveryToolHooked ==
    /\ inv.ran => inv.hook = "proceed"
    /\ (pc = "Running" /\ rt = "ToolExec") => inv.hook = "proceed"

\* C10: for every tool invocation requested by the root weather agent (the
\* agent created with before_tool_callback), the pre-tool hook is evaluated
\* before the tool body, the body runs only if the hook returned proceed for
\* that invocation, and a payload returned by the hook is the invocation's
\* result.
C10_RootToolHooked ==
    inv.agent = RootAgent =>
        /\ inv.ran => inv.hook = "proceed"
        /\ (pc = "Running" /\ rt = "ToolExec") => inv.hook = "proceed"
        /\ inv.hook = "override" => (~inv.ran /\ inv.ret.status = "error")
        /\ inv.hook \in {"none", "raised"} => inv.ret = NoResult

C10_Witness ==
    /\ inv.agent = RootAgent
    /\ inv.name = "get_weather"
    /\ inv.hook = "proceed"
    /\ inv.ran
    /\ inv.ret.status = "success"

\* the first final event of the turn carries a text
FinalWithText ==
    /\ loop = "broke" /\ events # <<>>
    /\ events[Len(events)].hasContent
    /\ events[Len(events)].parts # <<>>
    /\ events[Len(events)].parts[1] \notin {NoneText, <<>>}

\* C11: with the output key configured, once a turn has consumed a final
\* event that carries text, state["last_weather_report"] is that text,
\* whatever an earlier turn had stored there and whichever agent of the team
\* produced the event.
C11_OutputKeyHoldsFinalText ==
    FinalWithText =>
        /\ KeyOutput \in DOMAIN state
        /\ state[KeyOutput] = events[Len(events)].parts[1]
        /\ state[KeyOutput] = final_response_text

C11_Witness ==
    /\ turn = 2
    /\ FinalWithText
    /\ agent = FarewellAgent
    /\ KeyOutput \in DOMAIN state0
    /\ state0[KeyOutput] = BlockEvent.parts[1]
    /\ state[KeyOutput] = <<"Sure.">>

\* the body of get_weather has returned for this city argument
WeatherRan(city) ==
    /\ inv.name = "get_weather" /\ inv.ran
    /\ inv.args["city"] = StrVal(city)

UnitIs(s, unit) == KeyUnit \in DOMAIN s /\ s[KeyUnit] = unit

\* C12: in the session created with user_preference_temperature_unit =
\* "Celsius", the get_weather call for London returns status "success" with a
\* report that contains "15°C" and "cloudy".
C12_LondonCelsius ==
    (WeatherRan(<<"L","o","n","d","o","n">>) /\ UnitIs(state, Celsius)) =>
        /\ inv.ret.status = "success"
        /\ Contains(inv.ret.report, <<"1", "5", "°C">>)
        /\ Contains(inv.ret.report, <<"cloudy">>)
        /\ ~Contains(inv.ret.report, <<"°F">>)

C12_Witness ==
    /\ turn = 1
    /\ WeatherRan(<<"L","o","n","d","o","n">>)
    /\ UnitIs(state, Celsius)
    /\ inv.ret.status = "success"
    /\ inv.hook = "proceed"

C14_TurnErrorsRecovered == pc # "Aborted"

\* the city argument of the invocation is a string outside the mock table
UnknownCityRequested ==
    /\ inv.name = "get_weather"
    /\ "city" \in DOMAIN inv.args
    /\ IsStr(inv.args["city"])
    /\ RemoveSpaces(StrLower(inv.args["city"].v)) \notin
          {<<"n","e","w","y","o","r","k">>, <<"l","o","n","d","o","n">>, <<"t","o","k","y","o">>}

\* C15: every result of a get_weather invocation, from the tool body or from
\* the pre-tool override, is {status: "success", report} or {status: "error",
\* error_message} and nothing else; for a city string outside the mock table
\* the body does not raise and returns the error shape with its message.
C15_WeatherResultShape ==
    /\ (inv.name = "get_weather" /\ inv.ret # NoResult) =>
          \/ DOMAIN inv.ret = {"status", "report"} /\ inv.ret.status = "success"
          \/ DOMAIN inv.ret = {"status", "error_message"} /\ inv.ret.status = "error"
    /\ (inv.name = "get_weather" /\ (inv.ran \/ inv.hook = "override")) =>
          inv.ret # NoResult
    /\ UnknownCityRequested =>
          /\ ~(pc = "Aborted" /\ rt = "ToolExec")
          /\ inv.ran =>
                inv.ret = [status |-> "error",
                           error_message |->
                               <<"Sorry, I don't have weather information for '">>
                                   \o inv.args["city"].v \o <<"'.">>]

C15_Witness ==
    /\ UnknownCityRequested
    /\ inv.args["city"].v = <<"B","e","r","l","i","n">>
    /\ inv.ran
    /\ inv.ret.status = "error"

\* C16: turns of the session never overlap: a query is submitted only when
\* the response of every earlier turn has been printed, so at most one turn
\* is in progress at any time.
C16_TurnsNeverOverlap ==
    /\ turn - answered \in {0, 1}
    /\ pc = "Idle" => turn = answered
    /\ pc = "Running" => turn = answered + 1

C16_Witness ==
    /\ pc = "Running"
    /\ turn = 2 /\ answered = 1
    /\ events # <<>>

\* C17: the session created under (app, user, session) is found by get under
\* the same key with the initial state in it, stays in the store through
\* every turn with every key written so far, and every turn of the script is
\* run on exactly that key.
C17_SessionKeptAndTargeted ==
    LET got == get_session(sessions, <<<<"weather_app", "_", "gemini">>,
                                       <<"user_1", "_", "gemini">>,
                                       <<"session_001", "_", "gemini">>>>, state)
    IN  /\ got.found
        /\ turn = 0 => \A k \in DOMAIN initial_state :
                          k \in DOMAIN got.state /\ got.state[k] = initial_state[k]
        /\ \A k \in DOMAIN written :
              k \in DOMAIN got.state /\ got.state[k] = written[k]
        /\ \A k \in DOMAIN state0 : k \in DOMAIN got.state
        /\ turn > 0 => (target \in sessions /\ target = CreatedKey)

C17_Witness ==
    /\ pc = "Idle" /\ turn = 2
    /\ target = CreatedKey
    /\ get_session(sessions, CreatedKey, state).found
    /\ {KeyUnit, KeyLastCity, KeyOutput, KeyToolFlag} \subseteq DOMAIN state

\* C18: the pre-model hook decides on the most recent user message only: it
\* overrides in a turn only if the query of that turn holds the keyword, never
\* because an older user message or a model message holds it.
C18_LatestUserMessageDecides == blocked => HasBlockAnyCase(query)

\* C19: the pre-tool hook ends in an override or in anything other than
\* proceed only for a get_weather invocation whose city is a blocked city;
\* for every other tool and for a city that is missing, empty or not blocked
\* it returns proceed.
C19_OtherwiseProceeds ==
    (HookEvaluated /\ ~ParisRequested) => inv.hook = "proceed"

\* the pre-model hook is about to run
KeywordHookStep == pc = "Running" /\ loop = "iterating" /\ rt = "BeforeModel"

\* the pre-tool hook is about to run
ToolHookStep == pc = "Running" /\ loop = "iterating" /\ rt = "BeforeTool"

SameBut(s, t, keys) ==
    /\ (DOMAIN s) \ keys = (DOMAIN t) \ keys
    /\ \A k \in (DOMAIN s) \ keys : s[k] = t[k]

\* C20: a guardrail changes the session state only when it overrides, and
\* then only by setting its own flag to True (the override response of the
\* pre-model hook is also saved under the output key); no step of any
\* operation sets a flag to another value or removes it, so a flag that is
\* True stays True.
C20_FlagsOnlySetOnOverride ==
    [][/\ \A k \in {KeyBlockFlag, KeyToolFlag} :
             /\ k \in DOMAIN state' => state'[k] = TRUE
             /\ k \in DOMAIN state => k \in DOMAIN state'
       /\ KeywordHookStep =>
             IF blocked'
             THEN /\ Flag(state', KeyBlockFlag)
                  /\ SameBut(state, state', {KeyBlockFlag, KeyOutput})
             ELSE state' = state
       /\ ToolHookStep =>
             IF inv'.hook = "override"
             THEN /\ Flag(state', KeyToolFlag)
                  /\ SameBut(state, state', {KeyToolFlag})
             ELSE state' = state]_vars

C20_Witness ==
    /\ turn = 2 /\ pc = "Running"
    /\ Flag(state0, KeyBlockFlag)
    /\ ~blocked /\ modelInvoked
    /\ inv.hook = "proceed" /\ inv.ran
    /\ Flag(state, KeyBlockFlag)
    /\ ~Flag(state, KeyToolFlag)

\* C21: a run of get_weather changes the session state only when it returns
\* status "success", and then only by setting last_city_checked_stateful to
\* the city argument exactly as it was passed; a run that returns status
\* "error" leaves every key as it was, last_city_checked_stateful of an
\* earlier turn included; user_preference_temperature_unit is never written.
C21_WritesOnlyOnSuccess ==
    [][GetWeatherStep =>
          /\ inv'.ret.status = "success" =>
                /\ SameBut(state, state', {KeyLastCity})
                /\ KeyLastCity \in DOMAIN state'
                /\ state'[KeyLastCity] = inv.args["city"].v
          /\ inv'.ret.status = "error" => state' = state
          /\ (KeyUnit \in DOMAIN state') <=> (KeyUnit \in DOMAIN state)
          /\ KeyUnit \in DOMAIN state => state'[KeyUnit] = state[KeyUnit]]_vars

C21_Witness ==
    /\ turn = 2
    /\ WeatherRan(<<"B","e","r","l","i","n">>)
    /\ inv.ret.status = "error"
    /\ KeyLastCity \in DOMAIN state
    /\ state[KeyLastCity] = <<"N","e","w"," ","Y","o","r","k">>

\* the city argument is a string that normalizes (lower case, spaces removed)
\* to "paris"
NormalizesToParis ==
    /\ inv.name = "get_weather"
    /\ "city" \in DOMAIN inv.args
    /\ IsStr(inv.args["city"])
    /\ RemoveSpaces(StrLower(inv.args["city"].v)) = <<"p","a","r","i","s">>

\* C22: no get_weather invocation whose city normalizes to "paris" ends in a
\* successful report: once the invocation has a result, from the guardrail or
\* from the tool body, its status is "error" and last_city_checked_stateful
\* has not been set to that city.
C22_NoReportForBlockedCity ==
    NormalizesToParis =>
        /\ inv.ret # NoResult => inv.ret.status = "error"
        /\ (inv.ran \/ inv.hook = "override") => inv.ret # NoResult
        /\ KeyLastCity \in DOMAIN state => state[KeyLastCity] # inv.args["city"].v

C22_Witness ==
    /\ NormalizesToParis
    /\ inv.args["city"].v = <<"P","a","r"," ","i","s">>
    /\ inv.hook = "proceed"
    /\ inv.ran
    /\ inv.ret.status = "error"
    /\ ~Flag(state, KeyToolFlag)

\* the digits and the unit that end a report, before the full stop
ShownTemperature(report) == SubSeq(report, Len(report) - 3, Len(report) - 1)

\* the temperature each city of the table is reported with, per unit
ExpectedTemperature(city, fahrenheit) ==
    CASE city = <<"n","e","w","y","o","r","k">> ->
            IF fahrenheit THEN <<"7", "7", "°F">> ELSE <<"2", "5", "°C">>
      [] city = <<"l","o","n","d","o","n">> ->
            IF fahrenheit THEN <<"5", "9", "°F">> ELSE <<"1", "5", "°C">>
      [] city = <<"t","o","k","y","o">> ->
            IF fahrenheit THEN <<"6", "4", "°F">> ELSE <<"1", "8", "°C">>

\* C23: a successful report of get_weather shows the Fahrenheit value
\* temp_c*9/5+32 without decimals (77, 59, 64) with °F when the stored unit is
\* exactly "Fahrenheit", and the table's Celsius value (25, 15, 18) with °C
\* for every other stored value, the unset one included.
C23_FahrenheitOnlyWhenExact ==
    (inv.name = "get_weather" /\ inv.ran /\ inv.ret.status = "success") =>
        ShownTemperature(inv.ret.report) =
            ExpectedTemperature(RemoveSpaces(StrLower(inv.args["city"].v)),
                                KeyUnit \in DOMAIN state /\
                                state[KeyUnit] = <<"F","a","h","r","e","n","h","e","i","t">>)

C23_Witness ==
    /\ WeatherRan(<<"T","o","k","y","o">>)
    /\ KeyUnit \in DOMAIN state
    /\ state[KeyUnit] = <<"f","a","h","r","e","n","h","e","i","t">>
    /\ Contains(inv.ret.report, <<"1", "8", "°C">>)

\* C24: whatever the short name, get_model_constants either returns a pair
\* (agent_model, model) or fails with the configuration ValueError; it ends
\* in no other way.
C24_ReturnsOrValueError ==
    config.result.outcome \in {"pending", "returned", "ValueError"}

====
